---- MODULE Spec2Model ----
(***************************************************************************)
(* Model of schedulum's schedules app: the validation mixins of Month,     *)
(* Week and Schedule (schedules/mixins.py) and the views that read and     *)
(* change Schedule records (schedules/views.py).                           *)
(*                                                                         *)
(* Dates are day numbers counted from 2024-01-01, which is a Monday, so    *)
(* date.weekday() of day d is d % 7 (Monday = 0 .. Sunday = 6).            *)
(* An optional value (a nullable field, the result of QuerySet.first())    *)
(* is a set with at most one element: {} is Python's None.                 *)
(***************************************************************************)
EXTENDS Integers, Sequences, FiniteSets

VARIABLES
    years,      \* Year table: set of [pk, year]
    months,     \* Month table: set of [pk, start, end]
    weeks,      \* Week table: set of [pk, start, end]
    schedules,  \* Schedule table: set of [pk, date, author, week, rate, count]
    nextPk,     \* next primary key of each table: [year, month, week, schedule]
    req,        \* in-flight ScheduleCreateView requests, per worker
    response    \* what the last handled request answered

vars == <<years, months, weeks, schedules, nextPk, req, response>>

----------------------------------------------------------------------------
(* Bounds of the model                                                     *)

MaxMonths == 2
MaxWeeks == 3
MaxSchedules == 2

----------------------------------------------------------------------------
(* Python / Django primitives                                              *)

None == {}

Some(v) == {v}

\* Python truthiness of an optional integer: None and 0 are falsy.
Truthy(x) == x # None /\ x # Some(0)

\* The only element of a one-element set.
The(S) == CHOOSE x \in S : TRUE

\* QuerySet.first(): no ordering is defined, so the rows are ordered by pk.
First(rows) == IF rows = {} THEN None ELSE Some(CHOOSE r \in rows : \A q \in rows : r.pk <= q.pk)

\* The pk an optional row is compared by in a filter (None: IS NULL).
PkOf(obj) == {r.pk : r \in obj}

DaysInWeek == 7

\* datetime.date.weekday(): Monday = 0 .. Sunday = 6.
Weekday(d) == d % DaysInWeek

Sunday == 6

DaysInYear2024 == 366

FirstYear == 2024

\* date.year of a day number.
YearOf(d) == FirstYear + (d \div DaysInYear2024)

----------------------------------------------------------------------------
(* TrueDiffInterval, MonthMixin, WeekMixin, ValidationMonthAndWeekInterval *)

get_true_diff(self) == (self.end - self.start) + 1

AverageOffset == 15

get_average_date(self) == self.start + AverageOffset

MonthMixin_get_related_obj(self) == First({y \in years : y.year = YearOf(get_average_date(self))})

MonthMixin_validate_related_obj(self) == IF MonthMixin_get_related_obj(self) = None THEN {"no_year"} ELSE {}

MinWeeksInMonth == 4

MaxWeeksInMonth == 5

MonthLenTooManyWeeksMutant(self) ==
    LET true_diff == get_true_diff(self)
        count_weeks == true_diff \div DaysInWeek
    IN  IF true_diff % DaysInWeek # 0 THEN {"week_not_7_days"}
        ELSE IF count_weeks < MinWeeksInMonth \/ count_weeks > MaxWeeksInMonth + 1 THEN {"not_4_or_5_weeks"}
        ELSE {}

MonthMixin_validate_len_interval(self) ==
    LET true_diff == get_true_diff(self)
        count_weeks == true_diff \div DaysInWeek
    IN  IF true_diff % DaysInWeek # 0 THEN {"week_not_7_days"}
        ELSE IF count_weeks < MinWeeksInMonth \/ count_weeks > MaxWeeksInMonth THEN {"not_4_or_5_weeks"}
        ELSE {}

WeekMixin_get_related_obj(self) == First({m \in months : m.start <= self.start /\ m.end >= self.start})

WeekMixin_validate_related_obj(self) == IF WeekMixin_get_related_obj(self) = None THEN {"no_month"} ELSE {}

WeekMixin_validate_len_interval(self) == IF get_true_diff(self) # DaysInWeek THEN {"week_len"} ELSE {}

validate_incorrect_interval(self) == IF self.start >= self.end THEN {"end_not_after_start"} ELSE {}

\* `table` is model.objects of self's own model.
validate_exist_interval(self, table) ==
    LET start_obj == First({o \in table : o.start < self.start /\ o.end > self.start})
        end_obj == First({o \in table : o.start < self.end /\ o.end > self.end})
    IN  (IF start_obj # None THEN {"start_in_other"} ELSE {})
        \cup (IF end_obj # None THEN {"end_in_other"} ELSE {})

validate_interval(self, table) ==
    IF validate_incorrect_interval(self) # {} THEN validate_incorrect_interval(self)
    ELSE validate_exist_interval(self, table)

\* The first check that raises decides the error of a clean().
FirstError(errs) ==
    IF \A i \in 1..Len(errs) : errs[i] = {} THEN {}
    ELSE errs[CHOOSE i \in 1..Len(errs) : errs[i] # {} /\ \A j \in 1..(i - 1) : errs[j] = {}]

\* Month.clean(): length, then parent, then overlap.
MonthClean(self) ==
    FirstError(<<MonthMixin_validate_len_interval(self), MonthMixin_validate_related_obj(self), validate_interval(self, months)>>)

\* Week.clean(): length, then parent, then overlap.
WeekClean(self) ==
    FirstError(<<WeekMixin_validate_len_interval(self), WeekMixin_validate_related_obj(self), validate_interval(self, weeks)>>)

----------------------------------------------------------------------------
(* ScheduleMixin                                                           *)

ScheduleMixin_get_related_obj(date) == First({w \in weeks : w.start <= date /\ w.end >= date})

RepeatRangeShortMutant(self) == 1..(The(self.repetition_count) - 1)

\* range(1, self.repetition_count + 1)
RepeatRange(self) == 1..The(self.repetition_count)

\* The list of optional Week rows: the repeated dates' weeks, then the base date's.
get_related_week_objects(self) ==
    LET repeated ==
            IF Truthy(self.repetition_rate) /\ Truthy(self.repetition_count)
            THEN [repeat \in RepeatRange(self) |->
                    ScheduleMixin_get_related_obj(self.date + ((DaysInWeek * The(self.repetition_rate)) * repeat))]
            ELSE <<>>
    IN  Append(repeated, ScheduleMixin_get_related_obj(self.date))

validate_empty_repetition(self) ==
    LET any == Truthy(self.repetition_rate) \/ Truthy(self.repetition_count)
        all == Truthy(self.repetition_rate) /\ Truthy(self.repetition_count)
    IN  IF any /\ ~all THEN {"incomplete_repetition"} ELSE {}

\* Model.__ne__ of a row and an optional row: rows are equal when their pks are.
NotEqualAlwaysMutant(schedule, current_schedule) == TRUE

NotEqual(schedule, current_schedule) == Some(schedule.pk) # PkOf(current_schedule)

\* Schedule.save(): the row, its week derived from its date.
ScheduleRow(pk, self) ==
    [pk |-> pk, date |-> self.date, author |-> self.author,
     week |-> PkOf(ScheduleMixin_get_related_obj(self.date)),
     repetition_rate |-> self.repetition_rate, repetition_count |-> self.repetition_count]

\* The rows the validated, not yet saved create requests are about to insert.
Pending == {ScheduleRow(0 - w, req[w].self) : w \in {v \in DOMAIN req : req[v].pc = "valid"}}

ObjectsWithPendingMutant == schedules \cup Pending

\* model.objects of Schedule as the queries of a validation see it: the rows that
\* are committed, whatever other requests are in flight.
ScheduleObjects == schedules

\* The loop of validate_exist_schedule over `objects`, the rows of model.objects.
ExistSchedule(self, objects) ==
    LET current_schedule == First({s \in objects : s.date = self.date /\ s.author = self.author})
        week_objs == get_related_week_objects(self)
        schedule_objs(week_obj) == {s \in objects : s.author = self.author /\ s.week = PkOf(week_obj)}
    IN  IF \E i \in 1..Len(week_objs) : \E schedule \in schedule_objs(week_objs[i]) :
              /\ Weekday(schedule.date) = Weekday(self.date)
              /\ NotEqual(schedule, current_schedule)
        THEN {"collision"}
        ELSE {}

validate_exist_schedule(self) == ExistSchedule(self, ScheduleObjects)

validate_exist_weeks(self) ==
    LET week_objs == get_related_week_objects(self)
    IN  IF \E i \in 1..Len(week_objs) : week_objs[i] = None THEN {"no_week"} ELSE {}

validate_sunday(self) == IF Weekday(self.date) = Sunday THEN {"sunday"} ELSE {}

\* Schedule.clean(): what each of the four checks raises.
ScheduleClean(self) ==
    [sunday |-> validate_sunday(self),
     repetition |-> validate_empty_repetition(self),
     weeks |-> validate_exist_weeks(self),
     collision |-> validate_exist_schedule(self)]

Accepted(errors) == \A k \in DOMAIN errors : errors[k] = {}

----------------------------------------------------------------------------
(* The request cycle, and the administrator's creation of the hierarchy    *)

NoResponse == [op |-> "none"]

\* The worker is free: the previous request was answered.
Free == response = NoResponse

\* The response is sent; the worker takes the next request.
Respond ==
    /\ response # NoResponse
    /\ response' = NoResponse
    /\ UNCHANGED <<years, months, weeks, schedules, nextPk, req>>

YearCreate(y) ==
    /\ Free
    /\ \A r \in years : r.year # y
    /\ years' = years \cup {[pk |-> nextPk.year, year |-> y]}
    /\ nextPk' = [nextPk EXCEPT !.year = @ + 1]
    /\ response' = [op |-> "year_create", year |-> y]
    /\ UNCHANGED <<months, weeks, schedules, req>>

MonthCreate(s, e) ==
    LET self == [start |-> s, end |-> e]
        errors == MonthClean(self)
        saved == [pk |-> nextPk.month, start |-> s, end |-> e]
    IN  /\ Free
        /\ Cardinality(months) < MaxMonths
        /\ response' = [op |-> "month_create", start |-> s, end |-> e,
                        len_errors |-> MonthMixin_validate_len_interval(self),
                        interval_errors |-> validate_interval(self, months),
                        errors |-> errors]
        /\ IF errors = {}
           THEN /\ months' = months \cup {saved}
                /\ nextPk' = [nextPk EXCEPT !.month = @ + 1]
           ELSE UNCHANGED <<months, nextPk>>
        /\ UNCHANGED <<years, weeks, schedules, req>>

WeekCreate(s, e) ==
    LET self == [start |-> s, end |-> e]
        errors == WeekClean(self)
        saved == [pk |-> nextPk.week, start |-> s, end |-> e]
    IN  /\ Free
        /\ Cardinality(weeks) < MaxWeeks
        /\ response' = [op |-> "week_create", start |-> s, end |-> e,
                        interval_errors |-> validate_interval(self, weeks),
                        errors |-> errors]
        /\ IF errors = {}
           THEN /\ weeks' = weeks \cup {saved}
                /\ nextPk' = [nextPk EXCEPT !.week = @ + 1]
           ELSE UNCHANGED <<weeks, nextPk>>
        /\ UNCHANGED <<years, months, schedules, req>>

----------------------------------------------------------------------------
(* views.py: the Schedule views                                            *)

\* ScheduleCreateView on one worker: the form is validated and saved before the
\* next request is taken.
ScheduleCreate(author, date, rate, count) ==
    LET self == [pk |-> None, date |-> date, author |-> author,
                 repetition_rate |-> rate, repetition_count |-> count]
        errors == ScheduleClean(self)
    IN  /\ Free
        /\ nextPk.schedule <= MaxSchedules
        /\ response' = [op |-> "create", self |-> self, errors |-> errors,
                        saved |-> IF Accepted(errors) THEN Some(nextPk.schedule) ELSE None]
        /\ IF Accepted(errors)
           THEN /\ schedules' = schedules \cup {ScheduleRow(nextPk.schedule, self)}
                /\ nextPk' = [nextPk EXCEPT !.schedule = @ + 1]
           ELSE UNCHANGED <<schedules, nextPk>>
        /\ UNCHANGED <<years, months, weeks, req>>

DaysInMonth2024 == <<31, 29, 31, 30, 31, 30, 31, 31, 30, 31, 30, 31>>

RECURSIVE DaysBeforeMonth(_)
DaysBeforeMonth(m) == IF m <= 1 THEN 0 ELSE DaysInMonth2024[m - 1] + DaysBeforeMonth(m - 1)

\* datetime.datetime.strptime(date_str, '%Y-%m-%d').date() of a segment that reads
\* year-month-day: the date, or None when strptime raises ValueError.
Strptime(date_str) ==
    IF /\ date_str.year = FirstYear
       /\ date_str.month \in 1..Len(DaysInMonth2024)
       /\ date_str.day \in 1..DaysInMonth2024[date_str.month]
    THEN Some(DaysBeforeMonth(date_str.month) + date_str.day - 1)
    ELSE None

\* ScheduleChangeMixin.get_object: the row, or how the request ends.
get_object(date_str, user) ==
    LET date == Strptime(date_str)
        found == {s \in schedules : s.date \in date /\ s.author = user}
    IN  IF date = None THEN [status |-> "ValueError", obj |-> None]
        ELSE IF found = {} THEN [status |-> "Http404", obj |-> None]
        ELSE IF Cardinality(found) > 1 THEN [status |-> "MultipleObjectsReturned", obj |-> None]
        ELSE [status |-> "object", obj |-> found]

\* GET of the update or delete page: the object is looked up and shown.
ScheduleChangeGet(date_str, user) ==
    /\ Free
    /\ response' = [op |-> "get_object", date_str |-> date_str, user |-> user,
                    result |-> get_object(date_str, user)]
    /\ UNCHANGED <<years, months, weeks, schedules, nextPk, req>>

\* POST of ScheduleUpdateView: the form's fields are set on the object, which is
\* validated and saved.
ScheduleUpdate(date_str, user, date, rate, count) ==
    LET got == get_object(date_str, user)
        obj == The(got.obj)
        self == [pk |-> Some(obj.pk), date |-> date, author |-> obj.author,
                 repetition_rate |-> rate, repetition_count |-> count]
        errors == ScheduleClean(self)
    IN  /\ Free
        /\ got.status = "object"
        /\ response' = [op |-> "update", obj |-> obj, self |-> self, errors |-> errors]
        /\ schedules' = IF Accepted(errors)
                        THEN (schedules \ {obj}) \cup {ScheduleRow(obj.pk, self)}
                        ELSE schedules
        /\ UNCHANGED <<years, months, weeks, nextPk, req>>

\* POST of ScheduleDeleteView.
ScheduleDelete(date_str, user) ==
    LET got == get_object(date_str, user)
    IN  /\ Free
        /\ got.status = "object"
        /\ response' = [op |-> "delete", obj |-> The(got.obj)]
        /\ schedules' = schedules \ got.obj
        /\ UNCHANGED <<years, months, weeks, nextPk, req>>

\* The database's day-of-week of the date__week_day lookup: Sunday = 1 .. Saturday = 7.
WeekDayLookup(d) == ((Weekday(d) + 1) % DaysInWeek) + 1

WeekDayOffset == 2

WeekDayIndexOffByOneMutant(date) == Weekday(date) + WeekDayOffset - 1

\* The index DayListView looks a date's schedule up by.
WeekDayIndex(date) == Weekday(date) + WeekDayOffset

\* DayListView.get_queryset for self.week and self.user.
DayList(week, user) ==
    [i \in 1..DaysInWeek |->
        LET number == i - 1
            date == week.start + number
            schedule == First({s \in schedules : /\ WeekDayLookup(s.date) = WeekDayIndex(date)
                                                 /\ s.author = user
                                                 /\ s.week = Some(week.pk)})
        IN  [date |-> date, schedule |-> schedule]]

DayListView(week, user) ==
    /\ Free
    /\ response' = [op |-> "daylist", week |-> week, user |-> user, pairs |-> DayList(week, user)]
    /\ UNCHANGED <<years, months, weeks, schedules, nextPk, req>>

----------------------------------------------------------------------------

Init ==
    /\ years = {}
    /\ months = {}
    /\ weeks = {}
    /\ schedules = {}
    /\ nextPk = [year |-> 1, month |-> 1, week |-> 1, schedule |-> 1]
    /\ req = <<>>
    /\ response = NoResponse

\* Inputs of the administrator's forms in the interval specification.
IntervalMonthStarts == {0, 14, 27, 28}

IntervalMonthLens == {1, 21, 28, 30, 35, 42}

IntervalWeekStarts == 0..8

IntervalWeekLens == {1, 6, 7, 8}

NextInterval ==
    \/ Respond
    \/ YearCreate(FirstYear)
    \/ \E s \in IntervalMonthStarts, n \in IntervalMonthLens : MonthCreate(s, s + n - 1)
    \/ \E s \in IntervalWeekStarts, n \in IntervalWeekLens : WeekCreate(s, s + n - 1)

SpecInterval == Init /\ [][NextInterval]_vars

\* The hierarchies the schedule specification starts from, each one a state of
\* SpecInterval: the administrator has created the Year, a Month and the Weeks.
Week(pk, start) == [pk |-> pk, start |-> start, end |-> start + DaysInWeek - 1]

WeekLayouts ==
    { {Week(1, 0), Week(2, 7)},
      {Week(1, 1), Week(2, 7)} }

Hierarchy(layout) ==
    /\ years = {[pk |-> 1, year |-> FirstYear]}
    /\ months = {[pk |-> 1, start |-> 0, end |-> 27]}
    /\ weeks = layout
    /\ nextPk = [year |-> 2, month |-> 2, week |-> Cardinality(layout) + 1, schedule |-> 1]

InitSchedules ==
    /\ \E layout \in WeekLayouts : Hierarchy(layout)
    /\ schedules = {}
    /\ req = <<>>
    /\ response = NoResponse

\* Inputs of the schedule specification.
Authors == {"A", "B"}

Dates == {0, 1, 6, 7}

\* The (repetition_rate, repetition_count) pairs a form submits.
Repetitions ==
    { <<None, None>>, <<Some(0), None>>, <<Some(1), None>>, <<None, Some(1)>>,
      <<Some(0), Some(1)>>, <<Some(1), Some(0)>>,
      <<Some(1), Some(1)>>, <<Some(1), Some(2)>>, <<Some(2), Some(1)>> }

\* The date segments of the update and delete paths: 2024-01-DD, and 2024-13-45.
Segments ==
    {[year |-> FirstYear, month |-> 1, day |-> d] : d \in {1, 2, 8, 45}}
    \cup {[year |-> FirstYear, month |-> 13, day |-> 45]}

Next ==
    \/ Respond
    \/ \E a \in Authors, d \in Dates, rep \in Repetitions : ScheduleCreate(a, d, rep[1], rep[2])
    \/ \E seg \in Segments, u \in Authors : ScheduleChangeGet(seg, u)
    \/ \E seg \in Segments, u \in Authors, d \in Dates, rep \in Repetitions :
          ScheduleUpdate(seg, u, d, rep[1], rep[2])
    \/ \E seg \in Segments, u \in Authors : ScheduleDelete(seg, u)
    \/ \E w \in weeks, u \in Authors : DayListView(w, u)

Spec == InitSchedules /\ [][Next]_vars

----------------------------------------------------------------------------
(* ScheduleCreateView on two workers: form.is_valid() and form.save() of    *)
(* one request are two steps, and the other worker's steps may come between *)

Workers == {1, 2}

IdleReq == [pc |-> "idle"]

\* form.is_valid(): Schedule.clean() against the committed rows.
CreateFormValidate(w, author, date, rate, count) ==
    LET self == [pk |-> None, date |-> date, author |-> author,
                 repetition_rate |-> rate, repetition_count |-> count]
        errors == ScheduleClean(self)
    IN  /\ req[w].pc = "idle"
        /\ nextPk.schedule + Cardinality({v \in Workers : req[v].pc = "valid"}) <= MaxSchedules
        /\ req' = [req EXCEPT ![w] = [pc |-> IF Accepted(errors) THEN "valid" ELSE "invalid",
                                      self |-> self, errors |-> errors,
                                      seen |-> nextPk.schedule, saved |-> None]]
        /\ UNCHANGED <<years, months, weeks, schedules, nextPk, response>>

\* form.save() of form_valid(): whatever was validated is inserted; nothing is
\* locked or checked again.
CreateFormSave(w) ==
    /\ req[w].pc = "valid"
    /\ schedules' = schedules \cup {ScheduleRow(nextPk.schedule, req[w].self)}
    /\ nextPk' = [nextPk EXCEPT !.schedule = @ + 1]
    /\ req' = [req EXCEPT ![w].pc = "saved", ![w].saved = Some(nextPk.schedule)]
    /\ UNCHANGED <<years, months, weeks, response>>

\* The redirect or the form with its errors is sent.
CreateRespond(w) ==
    /\ req[w].pc \in {"saved", "invalid"}
    /\ req' = [req EXCEPT ![w] = IdleReq]
    /\ UNCHANGED <<years, months, weeks, schedules, nextPk, response>>

InitRace ==
    /\ \E layout \in WeekLayouts : Hierarchy(layout)
    /\ schedules = {}
    /\ req = [w \in Workers |-> IdleReq]
    /\ response = NoResponse

RaceDates == {0, 7}

RaceRates == {None, Some(1)}

RaceCounts == {None, Some(1)}

NextRace ==
    \/ \E w \in Workers, a \in Authors, d \in RaceDates, r \in RaceRates, c \in RaceCounts :
          CreateFormValidate(w, a, d, r, c)
    \/ \E w \in Workers : CreateFormSave(w)
    \/ \E w \in Workers : CreateRespond(w)

SpecRace == InitRace /\ [][NextRace]_vars

----------------------------------------------------------------------------
(* What the claims speak about                                             *)

IsMonday(d) == Weekday(d) = 0

Contains(w, d) == w.start <= d /\ d <= w.end

\* The dates a schedule occupies: its date and, when both repetition fields are
\* set, date + 7 * repetition_rate * k for k = 1..repetition_count.
OccupiedDates(s) ==
    {s.date} \cup
    (IF s.repetition_rate # None /\ s.repetition_count # None
     THEN {s.date + DaysInWeek * The(s.repetition_rate) * k : k \in 1..The(s.repetition_count)}
     ELSE {})

\* Two schedules occupy the same weekday of the same Week.
Collide(s, t) ==
    \E d1 \in OccupiedDates(s), d2 \in OccupiedDates(t) :
        /\ Weekday(d1) = Weekday(d2)
        /\ \E w \in weeks : Contains(w, d1) /\ Contains(w, d2)

Overlap(a, b) == a.start <= b.end /\ b.start <= a.end

\* The Schedule rows before the create request that was just answered.
RowsBefore == {s \in schedules : s.pk \notin response.saved}

----------------------------------------------------------------------------
\* C1: a new candidate of author A dated on a Monday that resolves into Week W1 is
\* rejected with the collision error when the store already holds a Monday schedule
\* of A in W1; when every Monday schedule of W1 belongs to other authors, the
\* candidate (without repetition) passes validate_exist_schedule.
C1_SecondMondayRejected ==
    response.op = "create" =>
        LET self == response.self
            w1 == ScheduleMixin_get_related_obj(self.date)
            mondays == {s \in RowsBefore : s.week = PkOf(w1) /\ IsMonday(s.date)}
        IN  (IsMonday(self.date) /\ w1 # None) =>
                /\ (\E s \in mondays : s.author = self.author) => response.errors.collision # {}
                /\ (/\ mondays # {}
                    /\ \A s \in mondays : s.author # self.author
                    /\ self.repetition_rate = None
                    /\ self.repetition_count = None) => response.errors.collision = {}

\* C2: no two distinct Month rows and no two distinct Week rows have overlapping
\* inclusive [start, end] intervals.
C2_NoOverlappingSiblings ==
    /\ \A a \in months, b \in months : a.pk # b.pk => ~Overlap(a, b)
    /\ \A a \in weeks, b \in weeks : a.pk # b.pk => ~Overlap(a, b)

\* C3: no two distinct Schedule rows of one author occupy the same weekday of the
\* same Week, over their base dates and all their repeated dates.
C3_NoSameWeekdayOfWeek ==
    \A s \in schedules, t \in schedules : (s.pk # t.pk /\ s.author = t.author) => ~Collide(s, t)

\* The part of C3 about repetitions alone: no row's base date lands on a repeated
\* date of an earlier row of its author. The code breaks it as well: a stored row
\* is only found through its base week.
RepeatedOccurrenceBlocks ==
    \A s \in schedules, t \in schedules :
        (s.pk < t.pk /\ s.author = t.author) => t.date \notin (OccupiedDates(s) \ {s.date})

\* C4: an update that leaves the date of a persisted schedule unchanged raises no
\* collision error when the schedule as submitted collides with no other row of its
\* author.
C4_EditNeverSelfCollides ==
    response.op = "update" =>
        LET self == response.self
            obj == response.obj
        IN  (/\ self.date = obj.date
             /\ \A t \in schedules : (t.pk # obj.pk /\ t.author = obj.author) => ~Collide(self, t))
            => response.errors.collision = {}

\* C4 witness: a schedule with a repetition was resubmitted unchanged while its
\* author holds another row, and no collision was raised.
C4_Witness ==
    /\ response.op = "update"
    /\ response.self.date = response.obj.date
    /\ response.self.repetition_rate = response.obj.repetition_rate
    /\ response.self.repetition_count = response.obj.repetition_count
    /\ response.self.repetition_rate = Some(1)
    /\ \E t \in schedules : t.pk # response.obj.pk /\ t.author = response.obj.author
    /\ \A t \in schedules : (t.pk # response.obj.pk /\ t.author = response.obj.author) => ~Collide(response.self, t)
    /\ Accepted(response.errors)

\* C5: validate_exist_weeks raises the missing-week error exactly when some date of
\* the target set lies in no stored Week.
C5_MissingWeekIffUncoveredDate ==
    response.op \in {"create", "update"} =>
        (response.errors.weeks # {}
            <=> \E d \in OccupiedDates(response.self) : ~\E w \in weeks : Contains(w, d))

\* C5 witness: the base week and the first repeated week exist, the second repeated
\* week does not, and the missing-week error was raised.
C5_Witness ==
    /\ response.op = "create"
    /\ response.self.date = 0
    /\ response.self.repetition_rate = Some(1)
    /\ response.self.repetition_count = Some(2)
    /\ \E w \in weeks : Contains(w, 0)
    /\ \E w \in weeks : Contains(w, 7)
    /\ ~\E w \in weeks : Contains(w, 14)
    /\ response.errors.weeks # {}

\* C6: validate_empty_repetition rejects a candidate exactly when one of
\* repetition_rate and repetition_count is set and the other is absent.
C6_RejectsIffExactlyOneSet ==
    response.op = "create" =>
        (response.errors.repetition # {}
            <=> ((response.self.repetition_rate = None) # (response.self.repetition_count = None)))

\* C7: get_object ends with the Schedule of that date owned by the requesting user
\* or with not-found, never with an uncaught exception.
C7_NeverUncaught ==
    response.op = "get_object" =>
        \/ response.result.status = "Http404"
        \/ /\ response.result.status = "object"
           /\ \A s \in response.result.obj :
                 s \in schedules /\ s.author = response.user /\ Some(s.date) = Strptime(response.date_str)

\* C8: a Month with start < end passes validate_len_interval exactly when its
\* inclusive day count is 28 or 35.
C8_MonthLen28Or35 ==
    (response.op = "month_create" /\ response.start < response.end) =>
        (response.len_errors = {} <=> (response.end - response.start) + 1 \in {28, 35})

\* C8 witness: a 35-day Month was accepted and stored.
C8_Witness ==
    /\ response.op = "month_create"
    /\ (response.end - response.start) + 1 = 35
    /\ response.errors = {}
    /\ \E m \in months : m.start = response.start /\ m.end = response.end

\* C9: two create requests that both ran their validation before either row was
\* inserted, each of which passes against the rows committed before it, are both
\* accepted, and the rows of both are persisted.
C9_RaceBothPersisted ==
    \A w1 \in Workers, w2 \in Workers :
        LET r1 == req[w1]
            r2 == req[w2]
            before(r) == {s \in schedules : s.pk < r.seen}
            alone(r) == /\ r.errors.sunday = {}
                        /\ r.errors.repetition = {}
                        /\ r.errors.weeks = {}
                        /\ ExistSchedule(r.self, before(r)) = {}
            unseen(r, other) == \A pk \in other.saved : r.seen <= pk
        IN  (/\ w1 # w2
             /\ r1.pc # "idle" /\ r2.pc # "idle"
             /\ r1.self.author = r2.self.author
             /\ unseen(r1, r2) /\ unseen(r2, r1)
             /\ alone(r1) /\ alone(r2))
            => /\ r1.pc # "invalid" /\ r2.pc # "invalid"
               /\ \A pk \in r1.saved : ScheduleRow(pk, r1.self) \in schedules
               /\ \A pk \in r2.saved : ScheduleRow(pk, r2.self) \in schedules

\* C9 witness: both rows are persisted although the first request's candidate
\* collides with the row the second request inserted before it.
C9_Witness ==
    \E w1 \in Workers, w2 \in Workers :
        /\ w1 # w2
        /\ req[w1].pc = "saved" /\ req[w2].pc = "saved"
        /\ req[w1].self.author = req[w2].self.author
        /\ The(req[w2].saved) < The(req[w1].saved)
        /\ req[w1].seen <= The(req[w2].saved)
        /\ ExistSchedule(req[w1].self, {ScheduleRow(The(req[w2].saved), req[w2].self)}) # {}
        /\ ScheduleRow(The(req[w1].saved), req[w1].self) \in schedules
        /\ ScheduleRow(The(req[w2].saved), req[w2].self) \in schedules

\* C10: DayListView answers 7 pairs, the n-th for the date week.start + n, each
\* holding a schedule of the user in that Week on the weekday of its date, or none
\* when the user has no such schedule; a Sunday date is looked up by index 8 and
\* gets none.
C10_DayListPairs ==
    response.op = "daylist" =>
        LET week == response.week
            pairs == response.pairs
            matching(date) == {s \in schedules : /\ s.author = response.user
                                                 /\ s.week = Some(week.pk)
                                                 /\ Weekday(s.date) = Weekday(date)}
        IN  /\ DOMAIN pairs = 1..7
            /\ \A n \in 0..6 :
                  LET pair == pairs[n + 1]
                  IN  /\ pair.date = week.start + n
                      /\ pair.schedule \subseteq matching(pair.date)
                      /\ pair.schedule = None <=> matching(pair.date) = {}
                      /\ Weekday(pair.date) = Sunday => pair.schedule = None

\* C10 witness: a week's list holds a schedule on one weekday and none on another.
C10_Witness ==
    /\ response.op = "daylist"
    /\ \E i \in 1..7 : response.pairs[i].schedule # None /\ ~IsMonday(response.pairs[i].date)
    /\ \E i \in 1..7 : response.pairs[i].schedule = None

====
